---- MODULE Spec2Model ----
(***************************************************************************)
(* Model of the Google Drive MCP connector (src/main.py): the credential   *)
(* acquisition in get_drive and the tools built on it.  A tool invocation  *)
(* is a process p that walks through the statements of its handler; each   *)
(* action is one statement (or a run of purely local statements) of the    *)
(* handler.  The identity provider, the token file, the local file system  *)
(* and the Drive service are the environment the handlers act on.          *)
(***************************************************************************)
EXTENDS Integers, Sequences, FiniteSets, TLC

\* ------------------------------------------------------------------ bounds
\* Tool invocations dispatched in one behaviour.
MaxCalls == 3
\* Invocations the hosting server may run at the same time (SpecConc).
NProcs == 2

Procs == 1..NProcs
\* Sequential dispatch: one invocation slot.
SeqProcs == {1}

\* ------------------------------------------------------------- value sets
\* Python's None, as an argument value.
None == "None"
Comma == ","
Root == "root"
FolderMime == "application/vnd.google-apps.folder"
FileMime == "application/octet-stream"
\* Ids the Drive service hands out for created resources, in this order.
NewIds == <<"n1", "n2">>
\* The ids of the model: the root, the folders dA and dB under it, the file
\* f1, and the ids to come.
Ids == {Root, "dA", "dB", "f1", "n1", "n2"}
\* Local paths the tools are called with.
Paths == {<<"tmp", "a.txt">>, <<"tmp", "b.txt">>}

VARIABLES
    credentialsFile,  \* os.path.exists(CREDENTIALS_FILE)
    tokenStore,       \* TOKEN_FILE: <<>> (no file) or <<credential>>
    fs,               \* local files: path -> <<>> (absent) or <<content>>
    drive,            \* Drive service: id -> resource
    pc,               \* per invocation: the statement it is at
    tool,             \* per invocation: the tool invoked
    args,             \* per invocation: the arguments
    creds,            \* get_drive's local creds: <<>> (None) or <<credential>>
    service,          \* the handle get_drive returned: <<>> or <<its credential>>
    file,             \* move_file's local file: the record the get call returned
    progress,         \* download_file's downloader: chunks received so far
    result,           \* what the invocation returned or raised
    log,              \* calls the invocation issued outside the process
    start,            \* token store and local files when the invocation began
    origin,           \* how each Drive resource came to be
    ncalls            \* invocations dispatched so far

vars == <<credentialsFile, tokenStore, fs, drive, pc, tool, args,
          creds, service, file, progress, result, log, start, origin,
          ncalls>>

\* --------------------------------------------------------------- helpers
\* Python truthiness of an optional string argument (if parent_folder_id:).
Truthy(s) == s # None /\ s # ""

\* creds.valid: a token is held and it has not expired.
valid(c) == c.token # None /\ ~c.expired

\* A faulty variant of join: the ids run together with no separator.
RECURSIVE join_without_separator(_)
join_without_separator(list) ==
    IF list = <<>> THEN <<>>
    ELSE <<list[1]>> \o join_without_separator(Tail(list))

\* ",".join(list): a string is the sequence of its tokens, an id being one
\* token and the separator another.
RECURSIVE join(_)
join(list) ==
    IF list = <<>> THEN <<>>
    ELSE IF Len(list) = 1 THEN <<list[1]>>
    ELSE <<list[1], Comma>> \o join(Tail(list))

\* The Drive service's reading of a comma-separated id list: the segments
\* between the separators.
RECURSIVE SplitIds(_, _)
SplitIds(s, cur) ==
    IF s = <<>> THEN (IF cur = <<>> THEN {} ELSE {cur})
    ELSE IF Head(s) = Comma
         THEN (IF cur = <<>> THEN {} ELSE {cur}) \cup SplitIds(Tail(s), <<>>)
         ELSE SplitIds(Tail(s), Append(cur, Head(s)))

RECURSIVE Without(_, _)
Without(list, gone) ==
    IF list = <<>> THEN <<>>
    ELSE IF <<Head(list)>> \in gone THEN Without(Tail(list), gone)
    ELSE <<Head(list)>> \o Without(Tail(list), gone)

Elems(list) == {list[i] : i \in DOMAIN list}

\* ----------------------------------------------------- the Drive service
NoResource == [used |-> FALSE, exists |-> FALSE, name |-> None,
               mimeType |-> None, parents |-> <<>>, content |-> <<>>]

Resource(n, m, ps, c) == [used |-> TRUE, exists |-> TRUE, name |-> n,
                          mimeType |-> m, parents |-> ps, content |-> c]

IsFolder(id) == drive[id].exists /\ drive[id].mimeType = FolderMime

\* The attributes the service holds for a resource; parents is left out of
\* the record when the resource has none.
Metadata(d, id) ==
    LET keys == {"id", "name", "mimeType", "webViewLink"}
                \cup (IF d[id].parents = <<>> THEN {} ELSE {"parents"})
    IN [k \in keys |->
          CASE k = "id" -> <<id>>
            [] k = "name" -> <<d[id].name>>
            [] k = "mimeType" -> <<d[id].mimeType>>
            [] k = "webViewLink" -> <<"https://drive.google.com/", id>>
            [] k = "parents" -> d[id].parents]

\* fields=...: the response carries the requested attributes only.
Project(meta, fields) == [k \in (DOMAIN meta) \cap fields |-> meta[k]]

\* dict.get(key, default)
Get(dict, key, default) == IF key \in DOMAIN dict THEN dict[key] ELSE default

\* files().create: the next unused id, or none when the pool is used up.
FreshIds == {i \in DOMAIN NewIds :
               /\ ~drive[NewIds[i]].used
               /\ \A j \in 1..(i - 1) : drive[NewIds[j]].used}

\* A faulty variant of UpdatedParents: removeParents is ignored.
UpdatedParents_keeps_old(ps, addParents, removeParents) ==
    IF addParents \in Elems(ps) THEN ps ELSE Append(ps, addParents)

\* files().update(addParents, removeParents): membership after the call.
UpdatedParents(ps, addParents, removeParents) ==
    LET kept == Without(ps, SplitIds(removeParents, <<>>))
    IN IF addParents \in Elems(kept) THEN kept ELSE Append(kept, addParents)

\* ------------------------------------------------------------ invocations
NoArgs == [folder_name |-> None, parent_folder_id |-> None,
           file_path |-> None, file_name |-> None, file_id |-> None,
           destination_path |-> None, new_parent_folder_id |-> None]

NoResult == [kind |-> "none"]
Returned(v) == [kind |-> "ok", value |-> v]
Raised(e) == [kind |-> "error", error |-> e]

Event(svc, op) == [svc |-> svc, op |-> op, fileId |-> None,
                   addParents |-> None, removeParents |-> <<>>,
                   parents |-> <<>>, fields |-> {}]

Running(p) == pc[p] \notin {"idle", "done", "failed"}

\* A tool is dispatched: its try block starts with service = get_drive().
Dispatch(p, t, a) ==
    /\ ~Running(p)
    /\ ncalls < MaxCalls
    /\ ncalls' = ncalls + 1
    /\ pc' = [pc EXCEPT ![p] = "get_drive"]
    /\ tool' = [tool EXCEPT ![p] = t]
    /\ args' = [args EXCEPT ![p] = a]
    /\ creds' = [creds EXCEPT ![p] = <<>>]
    /\ service' = [service EXCEPT ![p] = <<>>]
    /\ file' = [file EXCEPT ![p] = <<>>]
    /\ progress' = [progress EXCEPT ![p] = 0]
    /\ result' = [result EXCEPT ![p] = NoResult]
    /\ log' = [log EXCEPT ![p] = <<>>]
    /\ start' = [start EXCEPT ![p] = [tokenStore |-> tokenStore, fs |-> fs]]
    /\ UNCHANGED <<credentialsFile, tokenStore, fs, drive, origin>>

\* except Exception as e: print(...); raise
Raise(p, e) ==
    /\ pc' = [pc EXCEPT ![p] = "failed"]
    /\ result' = [result EXCEPT ![p] = Raised(e)]

Return(p, v) ==
    /\ pc' = [pc EXCEPT ![p] = "done"]
    /\ result' = [result EXCEPT ![p] = Returned(v)]

Goto(p, l) == pc' = [pc EXCEPT ![p] = l]

Logged(p, ev) == log' = [log EXCEPT ![p] = Append(@, ev)]

\* -------------------------------------------------------------- get_drive
\* build("drive", "v3", credentials=creds): the handle holds the credential.
build(c) == c

\* Lines 27-42: the client-secret check and the load of the token file.
get_drive_load(p) ==
    /\ pc[p] = "get_drive"
    /\ IF ~credentialsFile
       THEN /\ Raise(p, "credentials.json not found")
            /\ UNCHANGED creds
       ELSE /\ creds' = [creds EXCEPT ![p] = tokenStore]
            /\ Goto(p, "creds")
            /\ UNCHANGED result
    /\ UNCHANGED <<credentialsFile, tokenStore, fs, drive, tool,
                   args, service, file, progress, log, start, origin, ncalls>>

\* A faulty variant of get_drive_valid: a valid credential is written back.
get_drive_valid_saves(p) ==
    /\ pc[p] = "creds"
    /\ creds[p] # <<>> /\ valid(creds[p][1])
    /\ Goto(p, "save")
    /\ UNCHANGED <<credentialsFile, tokenStore, fs, drive, tool, args, creds,
                   service, file, progress, result, log, start, origin,
                   ncalls>>

\* Line 45 false: the loaded credential is valid; lines 62-65 build and return.
get_drive_valid(p) ==
    /\ pc[p] = "creds"
    /\ creds[p] # <<>> /\ valid(creds[p][1])
    /\ service' = [service EXCEPT ![p] = build(creds[p])]
    /\ Goto(p, tool[p])
    /\ UNCHANGED <<credentialsFile, tokenStore, fs, drive, tool,
                   args, creds, file, progress, result, log, start, origin,
                   ncalls>>

\* A faulty variant of Refreshed: the renewed credential stays expired.
Refreshed_keeps_expiry(c) == [c EXCEPT !.token = "access"]

\* creds.refresh(Request()): the credential is renewed in place, or the
\* identity provider refuses and refresh raises.
Refreshed(c) == [c EXCEPT !.token = "access", !.expired = FALSE]

\* A faulty variant of get_drive_refresh: a refused refresh drops the
\* credential and goes on to the interactive flow.
get_drive_refresh_falls_back(p) ==
    /\ pc[p] = "creds"
    /\ ~(creds[p] # <<>> /\ valid(creds[p][1]))
    /\ creds[p] # <<>> /\ creds[p][1].expired /\ creds[p][1].refresh_token
    /\ Logged(p, Event("identity", "refresh"))
    /\ \/ /\ creds' = [creds EXCEPT ![p] = <<Refreshed(creds[p][1])>>]
          /\ Goto(p, "save")
       \/ /\ creds' = [creds EXCEPT ![p] = <<>>]
          /\ UNCHANGED pc
    /\ UNCHANGED <<credentialsFile, tokenStore, fs, drive, tool, args,
                   service, file, progress, result, start, origin, ncalls>>

\* Lines 46-48.
get_drive_refresh(p) ==
    /\ pc[p] = "creds"
    /\ ~(creds[p] # <<>> /\ valid(creds[p][1]))
    /\ creds[p] # <<>> /\ creds[p][1].expired /\ creds[p][1].refresh_token
    /\ Logged(p, Event("identity", "refresh"))
    /\ \/ /\ creds' = [creds EXCEPT ![p] = <<Refreshed(creds[p][1])>>]
          /\ Goto(p, "save")
          /\ UNCHANGED result
       \/ /\ Raise(p, "RefreshError")
          /\ UNCHANGED creds
    /\ UNCHANGED <<credentialsFile, tokenStore, fs, drive, tool, args, service, file,
                   progress, start, origin, ncalls>>

\* flow.run_local_server(port=0): a new credential, or the flow raises.
Authorized(r) ==
    [token |-> "access", expired |-> FALSE, refresh_token |-> r]

\* Lines 49-55.
get_drive_authorize(p) ==
    /\ pc[p] = "creds"
    /\ ~(creds[p] # <<>> /\ valid(creds[p][1]))
    /\ ~(creds[p] # <<>> /\ creds[p][1].expired /\ creds[p][1].refresh_token)
    /\ Logged(p, Event("identity", "authorize"))
    /\ \/ /\ \E r \in BOOLEAN :
               creds' = [creds EXCEPT ![p] = <<Authorized(r)>>]
          /\ Goto(p, "save")
          /\ UNCHANGED result
       \/ /\ Raise(p, "AuthorizationError")
          /\ UNCHANGED creds
    /\ UNCHANGED <<credentialsFile, tokenStore, fs, drive, tool, args, service, file,
                   progress, start, origin, ncalls>>

\* A faulty variant of Saved: the token file is left empty.
Saved_nothing(c) == <<>>

\* pickle.dump(creds, token)
Saved(c) == c

\* A faulty variant of get_drive_save: the token file is not written.
get_drive_save_skips_write(p) ==
    /\ pc[p] = "save"
    /\ service' = [service EXCEPT ![p] = build(creds[p])]
    /\ Goto(p, tool[p])
    /\ UNCHANGED <<credentialsFile, tokenStore, fs, drive, tool, args, creds,
                   file, progress, result, log, start, origin, ncalls>>

\* Lines 57-65: the credential is written to the token file, the service is
\* built and returned.
get_drive_save(p) ==
    /\ pc[p] = "save"
    /\ tokenStore' = Saved(creds[p])
    /\ Logged(p, Event("token_store", "write"))
    /\ service' = [service EXCEPT ![p] = build(creds[p])]
    /\ Goto(p, tool[p])
    /\ UNCHANGED <<credentialsFile, fs, drive, tool, args, creds,
                   file, progress, result, start, origin, ncalls>>

\* A call to the Drive service fails for a reason of the service's or the
\* network's own; the handler's except clause logs and re-raises.
DriveCall(l) ==
    CASE l = "create_folder" -> "create"
      [] l = "upload_file_create" -> "create"
      [] l = "delete_file" -> "delete"
      [] l = "download_file_chunk" -> "get_media"
      [] l = "move_file" -> "get"
      [] l = "move_file_update" -> "update"
      [] l = "get_file_info" -> "get"
      [] OTHER -> None

http_error(p) ==
    /\ DriveCall(pc[p]) # None
    /\ Logged(p, Event("drive", DriveCall(pc[p])))
    /\ Raise(p, "HttpError")
    /\ UNCHANGED <<credentialsFile, tokenStore, fs, drive, tool,
                   args, creds, service, file, progress, start, origin, ncalls>>

\* ---------------------------------------------------------- create_folder
CreateFields == {"id", "name", "webViewLink"}

create_folder(p) ==
    /\ FreshIds # {}
    /\ \E parent \in {None, "", "dA"} :
         Dispatch(p, "create_folder",
                  [NoArgs EXCEPT !.folder_name = "Reports",
                                 !.parent_folder_id = parent])

\* Lines 135-140 and 166-170: file_metadata, with parents only for a truthy
\* parent_folder_id.
file_metadata(name, mime, parent_folder_id) ==
    LET keys == {"name"} \cup (IF mime = None THEN {} ELSE {"mimeType"})
                \cup (IF Truthy(parent_folder_id) THEN {"parents"} ELSE {})
    IN [k \in keys |->
          CASE k = "name" -> <<name>>
            [] k = "mimeType" -> <<mime>>
            [] k = "parents" -> <<parent_folder_id>>]

\* files().create(body, media_body): the resource the service makes of it.
Created(body, content) ==
    Resource(body["name"][1],
             Get(body, "mimeType", <<FileMime>>)[1],
             Get(body, "parents", <<Root>>),
             content)

\* The service accepts a create whose parents are existing folders.
CreateAccepted(body) ==
    \A q \in Elems(Get(body, "parents", <<>>)) : IsFolder(q)

\* The create call of create_folder and upload_file.
Create(p, how, body, content) ==
    /\ FreshIds # {}
    /\ Logged(p, [Event("drive", "create") EXCEPT
                    !.parents = Get(body, "parents", <<>>),
                    !.fields = CreateFields])
    /\ IF CreateAccepted(body)
       THEN \E i \in FreshIds :
              LET id == NewIds[i]
                  d == [drive EXCEPT ![id] = Created(body, content)]
              IN /\ drive' = d
                 /\ origin' = [origin EXCEPT ![id] =
                                 [by |-> how,
                                  parent |-> args[p].parent_folder_id,
                                  parents |-> d[id].parents]]
                 /\ Return(p, Project(Metadata(d, id), CreateFields))
       ELSE /\ Raise(p, "HttpError")
            /\ UNCHANGED <<drive, origin>>

\* Lines 135-144.
create_folder_create(p) ==
    /\ pc[p] = "create_folder"
    /\ Create(p, "create_folder",
              file_metadata(args[p].folder_name, FolderMime,
                            args[p].parent_folder_id),
              <<>>)
    /\ UNCHANGED <<credentialsFile, tokenStore, fs, tool, args,
                   creds, service, file, progress, start, ncalls>>

\* ------------------------------------------------------------ upload_file
\* a.txt is uploaded under its own name, b.txt under a given one.
UploadCalls ==
    {[file_path |-> <<"tmp", "a.txt">>, file_name |-> None],
     [file_path |-> <<"tmp", "b.txt">>, file_name |-> "doc"]}

upload_file(p) ==
    /\ FreshIds # {}
    /\ \E call \in UploadCalls, parent \in {None, "n1"} :
         Dispatch(p, "upload_file",
                  [NoArgs EXCEPT !.file_path = call.file_path,
                                 !.file_name = call.file_name,
                                 !.parent_folder_id = parent])

\* os.path.basename
basename(path) == path[Len(path)]

\* A faulty variant of upload_file_exists: the path is not checked.
upload_file_exists_unchecked(p) ==
    /\ pc[p] = "upload_file"
    /\ Goto(p, "upload_file_create")
    /\ UNCHANGED <<credentialsFile, tokenStore, fs, drive, tool, args, creds,
                   service, file, progress, result, log, start, origin,
                   ncalls>>

\* Lines 163-164: the local file is looked for once get_drive has returned.
upload_file_exists(p) ==
    /\ pc[p] = "upload_file"
    /\ IF fs[args[p].file_path] = <<>>
       THEN Raise(p, "File not found")
       ELSE /\ Goto(p, "upload_file_create")
            /\ UNCHANGED result
    /\ UNCHANGED <<credentialsFile, tokenStore, fs, drive, tool,
                   args, creds, service, file, progress, log, start, origin, ncalls>>

\* Lines 166-180.
upload_file_create(p) ==
    /\ pc[p] = "upload_file_create"
    /\ IF fs[args[p].file_path] = <<>>
       THEN \* MediaFileUpload cannot open the file
            /\ Raise(p, "No such file")
            /\ UNCHANGED <<drive, origin, log>>
       ELSE Create(p, "upload_file",
                   file_metadata(IF Truthy(args[p].file_name)
                                 THEN args[p].file_name
                                 ELSE basename(args[p].file_path),
                                 None, args[p].parent_folder_id),
                   fs[args[p].file_path][1])
    /\ UNCHANGED <<credentialsFile, tokenStore, fs, tool, args,
                   creds, service, file, progress, start, ncalls>>

\* ------------------------------------------------------------ delete_file
delete_file(p) ==
    \E id \in {"f1", "n1"} :
        Dispatch(p, "delete_file", [NoArgs EXCEPT !.file_id = id])

\* x lies under id, n levels at most.
RECURSIVE Under(_, _, _, _)
Under(d, x, id, n) ==
    /\ n > 0
    /\ \E q \in Elems(d[x].parents) : q = id \/ Under(d, q, id, n - 1)

\* files().delete: the resource goes, and what lies under it with it.
Deleted(d, id) ==
    [x \in Ids |-> IF x = id \/ Under(d, x, id, Cardinality(Ids))
                   THEN [d[x] EXCEPT !.exists = FALSE]
                   ELSE d[x]]

\* Lines 196-198.
delete_file_delete(p) ==
    /\ pc[p] = "delete_file"
    /\ LET id == args[p].file_id
       IN /\ Logged(p, [Event("drive", "delete") EXCEPT !.fileId = id])
          /\ IF drive[id].exists
             THEN /\ drive' = Deleted(drive, id)
                  /\ Return(p, [success |-> TRUE,
                                message |-> <<"File ", id,
                                              " deleted successfully">>])
             ELSE /\ Raise(p, "HttpError")
                  /\ UNCHANGED drive
    /\ UNCHANGED <<credentialsFile, tokenStore, fs, tool, args,
                   creds, service, file, progress, start, origin, ncalls>>

\* ---------------------------------------------------------- download_file
download_file(p) ==
    \E id \in {"f1"}, dest \in {<<"tmp", "b.txt">>} :
        Dispatch(p, "download_file",
                 [NoArgs EXCEPT !.file_id = id, !.destination_path = dest])

\* io.FileIO(path, 'wb'): the file is created, or cut to nothing.
FileIO_wb(f, path) == [f EXCEPT ![path] = << <<>> >>]

\* fh.write(chunk)
Written(f, path, chunk) == [f EXCEPT ![path] = <<Append(@[1], chunk)>>]

\* Lines 215-220: the request is built (no call yet) and the destination is
\* opened for writing.
download_file_open(p) ==
    /\ pc[p] = "download_file"
    /\ fs' = FileIO_wb(fs, args[p].destination_path)
    /\ Goto(p, "download_file_chunk")
    /\ UNCHANGED <<credentialsFile, tokenStore, drive, tool, args,
                   creds, service, file, progress, result, log, start, origin, ncalls>>

\* A faulty variant of download_file_next_chunk: the loop ends after one chunk.
download_file_first_chunk_only(p) ==
    /\ pc[p] = "download_file_chunk"
    /\ LET id == args[p].file_id
           dest == args[p].destination_path
           total == Len(drive[id].content)
       IN /\ Logged(p, [Event("drive", "get_media") EXCEPT !.fileId = id])
          /\ IF drive[id].exists /\ ~IsFolder(id)
             THEN LET got == IF progress[p] < total THEN 1 ELSE 0
                      n == progress[p] + got
                  IN /\ fs' = IF got = 1
                              THEN Written(fs, dest, drive[id].content[n])
                              ELSE fs
                     /\ progress' = [progress EXCEPT ![p] = n]
                     /\ Return(p, [success |-> TRUE, path |-> dest])
             ELSE /\ Raise(p, "HttpError")
                  /\ UNCHANGED <<fs, progress>>
    /\ UNCHANGED <<credentialsFile, tokenStore, drive, tool, args, creds,
                   service, file, start, origin, ncalls>>

\* Lines 221-226: downloader.next_chunk() fetches the next chunk and writes
\* it to fh; the loop ends with the last one.
download_file_next_chunk(p) ==
    /\ pc[p] = "download_file_chunk"
    /\ LET id == args[p].file_id
           dest == args[p].destination_path
           total == Len(drive[id].content)
       IN /\ Logged(p, [Event("drive", "get_media") EXCEPT !.fileId = id])
          /\ IF drive[id].exists /\ ~IsFolder(id)
             THEN LET got == IF progress[p] < total THEN 1 ELSE 0
                      n == progress[p] + got
                  IN /\ fs' = IF got = 1
                              THEN Written(fs, dest, drive[id].content[n])
                              ELSE fs
                     /\ progress' = [progress EXCEPT ![p] = n]
                     /\ IF n = total
                        THEN Return(p, [success |-> TRUE, path |-> dest])
                        ELSE UNCHANGED <<pc, result>>
             ELSE /\ Raise(p, "HttpError")
                  /\ UNCHANGED <<fs, progress>>
    /\ UNCHANGED <<credentialsFile, tokenStore, drive, tool, args,
                   creds, service, file, start, origin, ncalls>>

\* -------------------------------------------------------------- move_file
move_file(p) ==
    \E id \in {"f1"}, target \in {"dA", "dB"} :
        Dispatch(p, "move_file",
                 [NoArgs EXCEPT !.file_id = id, !.new_parent_folder_id = target])

MoveGetFields == {"parents"}
MoveUpdateFields == {"id", "name", "parents", "webViewLink"}

\* Lines 266-268: read the current parents.
move_file_get(p) ==
    /\ pc[p] = "move_file"
    /\ LET id == args[p].file_id
           ev == [Event("drive", "get") EXCEPT !.fileId = id,
                                               !.fields = MoveGetFields]
       IN /\ Logged(p, ev)
          /\ IF drive[id].exists
             THEN /\ file' = [file EXCEPT ![p] =
                                Project(Metadata(drive, id), MoveGetFields)]
                  /\ Goto(p, "move_file_update")
                  /\ UNCHANGED result
             ELSE /\ Raise(p, "HttpError")
                  /\ UNCHANGED file
    /\ UNCHANGED <<credentialsFile, tokenStore, fs, drive, tool,
                   args, creds, service, progress, start, origin, ncalls>>

previous_parents(f) == join(Get(f, "parents", <<>>))

\* Lines 270-279: one update call swaps the membership.
move_file_update(p) ==
    /\ pc[p] = "move_file_update"
    /\ LET id == args[p].file_id
           add == args[p].new_parent_folder_id
           rem == previous_parents(file[p])
           ev == [Event("drive", "update") EXCEPT !.fileId = id,
                     !.addParents = add, !.removeParents = rem,
                     !.fields = MoveUpdateFields]
       IN /\ Logged(p, ev)
          /\ IF drive[id].exists /\ IsFolder(add) /\ add # id
             THEN LET d == [drive EXCEPT ![id].parents =
                               UpdatedParents(@, add, rem)]
                  IN /\ drive' = d
                     /\ Return(p, Project(Metadata(d, id), MoveUpdateFields))
             ELSE /\ Raise(p, "HttpError")
                  /\ UNCHANGED drive
    /\ UNCHANGED <<credentialsFile, tokenStore, fs, tool, args,
                   creds, service, file, progress, start, origin, ncalls>>

\* ---------------------------------------------------------- get_file_info
get_file_info(p) ==
    \E id \in {"f1", "n2"} :
        Dispatch(p, "get_file_info", [NoArgs EXCEPT !.file_id = id])

\* A variant of InfoFields that also requests parents.
InfoFields_with_parents ==
    {"id", "name", "mimeType", "size", "createdTime", "modifiedTime",
     "webViewLink", "owners", "permissions", "parents"}

InfoFields == {"id", "name", "mimeType", "size", "createdTime",
               "modifiedTime", "webViewLink", "owners", "permissions"}

\* Lines 295-299.
get_file_info_get(p) ==
    /\ pc[p] = "get_file_info"
    /\ LET id == args[p].file_id
       IN /\ Logged(p, [Event("drive", "get") EXCEPT !.fileId = id,
                                                     !.fields = InfoFields])
          /\ IF drive[id].exists
             THEN Return(p, Project(Metadata(drive, id), InfoFields))
             ELSE Raise(p, "HttpError")
    /\ UNCHANGED <<credentialsFile, tokenStore, fs, drive, tool,
                   args, creds, service, file, progress, start, origin, ncalls>>

\* ------------------------------------------------------------------- Init
InitialCredentials ==
    {<<>>} \cup {<<[token |-> "access", expired |-> e, refresh_token |-> r]>> :
                   e \in BOOLEAN, r \in BOOLEAN}

\* f1 starts in the root, in both folders (a file of the time when Drive
\* allowed several parents) or in none (a file shared with the user).
InitialParents == {<<Root>>, <<"dA", "dB">>, <<>>}

InitialDrive(ps) ==
    [id \in Ids |->
       CASE id = Root -> Resource("My Drive", FolderMime, <<>>, <<>>)
         [] id = "dA" -> Resource("A", FolderMime, <<Root>>, <<>>)
         [] id = "dB" -> Resource("B", FolderMime, <<Root>>, <<>>)
         [] id = "f1" -> Resource("f1.bin", FileMime, ps, <<"c1", "c2">>)
         [] OTHER -> NoResource]

Init ==
    /\ credentialsFile \in BOOLEAN
    /\ tokenStore \in InitialCredentials
    /\ fs = [path \in Paths |-> IF path = <<"tmp", "a.txt">> THEN <<<<"x">>>> ELSE <<>>]
    /\ drive \in {InitialDrive(ps) : ps \in InitialParents}
    /\ pc = [p \in Procs |-> "idle"]
    /\ tool = [p \in Procs |-> None]
    /\ args = [p \in Procs |-> NoArgs]
    /\ creds = [p \in Procs |-> <<>>]
    /\ service = [p \in Procs |-> <<>>]
    /\ file = [p \in Procs |-> <<>>]
    /\ progress = [p \in Procs |-> 0]
    /\ result = [p \in Procs |-> NoResult]
    /\ log = [p \in Procs |-> <<>>]
    /\ start = [p \in Procs |-> [tokenStore |-> tokenStore, fs |-> fs]]
    /\ origin = [id \in Ids |-> [by |-> "initial", parent |-> None,
                                  parents |-> drive[id].parents]]
    /\ ncalls = 0

GetDrive(p) ==
    \/ get_drive_load(p)
    \/ get_drive_valid(p)
    \/ get_drive_refresh(p)
    \/ get_drive_authorize(p)
    \/ get_drive_save(p)

Tool(p) ==
    \/ create_folder(p) \/ create_folder_create(p)
    \/ upload_file(p) \/ upload_file_exists(p) \/ upload_file_create(p)
    \/ delete_file(p) \/ delete_file_delete(p)
    \/ download_file(p) \/ download_file_open(p) \/ download_file_next_chunk(p)
    \/ move_file(p) \/ move_file_get(p) \/ move_file_update(p)
    \/ get_file_info(p) \/ get_file_info_get(p)
    \/ http_error(p)

\* One invocation at a time: each tool call blocks until it returns.
Next == \E p \in SeqProcs : GetDrive(p) \/ Tool(p)

Spec == Init /\ [][Next]_vars

\* Concurrent dispatch by the hosting server: move_file invocations that
\* overlap, with no lock around the get and the update of one invocation.
NextConc ==
    \E p \in Procs :
        \/ GetDrive(p)
        \/ (pc[p] = "idle" /\ move_file(p))
        \/ move_file_get(p) \/ move_file_update(p)
        \/ http_error(p)

\* The moved resource has a single parent, the root.
InitConc ==
    /\ Init
    /\ credentialsFile
    /\ drive = InitialDrive(<<Root>>)

SpecConc == InitConc /\ [][NextConc]_vars

\* ================================================================ claims
\* Calls of one kind the invocation has issued.
Count(p, svc, op) ==
    Cardinality({i \in DOMAIN log[p] : log[p][i].svc = svc /\ log[p][i].op = op})

CountSvc(p, svc) == Cardinality({i \in DOMAIN log[p] : log[p][i].svc = svc})

\* get_drive has returned or raised.
GetDriveOver(p) == pc[p] \notin {"idle", "get_drive", "creds", "save"}

\* The credential persisted when the invocation began.
Persisted(p) == start[p].tokenStore

PersistedValid(p) == Persisted(p) # <<>> /\ valid(Persisted(p)[1])

PersistedRefreshable(p) ==
    /\ Persisted(p) # <<>>
    /\ Persisted(p)[1].expired
    /\ Persisted(p)[1].refresh_token

\* C1: when get_drive starts with a persisted credential that is valid, or
\* expired with a refresh token, and returns a handle, the credential behind
\* the handle is not expired.
C1_ReturnedCredentialNotExpired ==
    \A p \in Procs :
        (service[p] # <<>> /\ (PersistedValid(p) \/ PersistedRefreshable(p)))
            => ~service[p][1].expired

\* A handle returned after a refresh of an expired credential.
C1_Witness ==
    \E p \in Procs :
        /\ service[p] # <<>>
        /\ PersistedRefreshable(p)
        /\ Count(p, "identity", "refresh") = 1

\* ---------------------------------------------------------------------
\* C2 as stated: with no persisted credential and the client secret
\* present, once get_drive is over the invocation has authorized exactly
\* once, refreshed never, and written exactly one credential, the authorized
\* one, to the token store.
C2_AuthorizesOnceWritesOne ==
    \A p \in Procs :
        (credentialsFile /\ Persisted(p) = <<>> /\ GetDriveOver(p))
            => /\ Count(p, "identity", "authorize") = 1
               /\ Count(p, "identity", "refresh") = 0
               /\ Count(p, "token_store", "write") = 1
               /\ tokenStore # <<>>

\* C2 amended: the authorization is attempted exactly once and nothing is
\* refreshed; when it succeeds exactly one credential, the authorized one, is
\* written; when it fails nothing is written.
C2_AuthorizesOnceWritesOnSuccess ==
    \A p \in Procs :
        (credentialsFile /\ Persisted(p) = <<>> /\ GetDriveOver(p))
            => /\ Count(p, "identity", "authorize") = 1
               /\ Count(p, "identity", "refresh") = 0
               /\ IF service[p] # <<>>
                  THEN /\ Count(p, "token_store", "write") = 1
                       /\ tokenStore = service[p]
                       /\ ~tokenStore[1].expired
                  ELSE /\ Count(p, "token_store", "write") = 0
                       /\ tokenStore = <<>>
                       /\ pc[p] = "failed"
                       /\ result[p].error = "AuthorizationError"

\* A handle returned after the interactive authorization.
C2_Witness ==
    \E p \in Procs :
        /\ credentialsFile /\ Persisted(p) = <<>>
        /\ service[p] # <<>>
        /\ Count(p, "identity", "authorize") = 1

\* C3: with a persisted credential that is expired and holds a refresh
\* token, get_drive refreshes and never authorizes interactively, and when
\* the refresh succeeds the token store holds the refreshed credential as the
\* handle is returned.
C3_RefreshesAndPersists ==
    \A p \in Procs :
        (credentialsFile /\ PersistedRefreshable(p) /\ GetDriveOver(p))
            => /\ Count(p, "identity", "refresh") = 1
               /\ Count(p, "identity", "authorize") = 0
               /\ service[p] # <<>> =>
                    /\ tokenStore = service[p]
                    /\ tokenStore =
                         <<[Persisted(p)[1] EXCEPT !.expired = FALSE]>>
                    /\ Count(p, "token_store", "write") = 1

\* The moment get_drive returns after a refresh.
C3_Witness ==
    \E p \in Procs :
        /\ PersistedRefreshable(p)
        /\ service[p] # <<>>
        /\ pc[p] = tool[p]
        /\ tokenStore # Persisted(p)

\* C4 as stated: when the refresh fails, get_drive goes on to the
\* interactive authorization in the same invocation.
C4_RefreshFailureFallsBackToAuthorization ==
    \A p \in Procs :
        (PersistedRefreshable(p) /\ ~Running(p) /\ pc[p] # "idle"
            /\ Count(p, "identity", "refresh") = 1
            /\ Count(p, "token_store", "write") = 0)
            => Count(p, "identity", "authorize") = 1

\* C4 amended: an invocation that has called refresh never authorizes
\* interactively; when the refresh fails get_drive raises the refresh error,
\* returns no handle and leaves the token store as it was.
C4_RefreshFailureRaises ==
    \A p \in Procs :
        Count(p, "identity", "refresh") >= 1
            => /\ Count(p, "identity", "authorize") = 0
               /\ (GetDriveOver(p) /\ service[p] = <<>>) =>
                    /\ pc[p] = "failed"
                    /\ result[p].error = "RefreshError"
                    /\ Count(p, "token_store", "write") = 0
                    /\ tokenStore = Persisted(p)

\* A refresh that failed.
C4_Witness ==
    \E p \in Procs :
        /\ PersistedRefreshable(p)
        /\ pc[p] = "failed"
        /\ result[p].error = "RefreshError"

\* The upload was called with a path that does not exist.
UploadOfMissingFile(p) ==
    /\ tool[p] = "upload_file"
    /\ start[p].fs[args[p].file_path] = <<>>

\* C5 as stated: upload_file of a missing path fails with the file-not-found
\* error before anything was called: no identity-provider call, no Drive
\* call, no token-store write, whatever the persisted credential.
C5_MissingFileFailsBeforeAnyCall ==
    \A p \in Procs :
        (UploadOfMissingFile(p) /\ credentialsFile /\ pc[p] = "failed"
            /\ result[p].error = "File not found")
            => log[p] = <<>>

\* C5 amended: upload_file of a missing path never calls the Drive service
\* and, once get_drive has returned, fails with the file-not-found error; the
\* calls get_drive makes come first, so only with a valid persisted
\* credential does nothing precede the failure.
C5_MissingFileFailsBeforeAnyDriveCall ==
    \A p \in Procs :
        UploadOfMissingFile(p)
            => /\ CountSvc(p, "drive") = 0
               /\ pc[p] \notin {"upload_file_create", "done"}
               /\ (service[p] # <<>> /\ ~Running(p)) =>
                    /\ pc[p] = "failed"
                    /\ result[p].error = "File not found"
               /\ PersistedValid(p) => log[p] = <<>>

\* The failure after a refresh and a token-store write.
C5_Witness ==
    \E p \in Procs :
        /\ UploadOfMissingFile(p)
        /\ pc[p] = "failed"
        /\ result[p].error = "File not found"
        /\ Count(p, "identity", "refresh") = 1
        /\ Count(p, "token_store", "write") = 1

\* C9: with a persisted credential that is valid, get_drive calls neither
\* refresh nor the interactive authorization, does not write the token
\* store, and returns a handle built from that credential.
C9_ValidCredentialUsedAsIs ==
    \A p \in Procs :
        PersistedValid(p)
            => /\ CountSvc(p, "identity") = 0
               /\ CountSvc(p, "token_store") = 0
               /\ tokenStore = Persisted(p)
               /\ (credentialsFile /\ GetDriveOver(p)) =>
                    service[p] = Persisted(p)

\* The moment get_drive returns with the persisted credential.
C9_Witness ==
    \E p \in Procs :
        /\ PersistedValid(p)
        /\ service[p] # <<>>
        /\ pc[p] = tool[p]

\* ---------------------------------------------------------------------
UpdateCalls(p) ==
    {i \in DOMAIN log[p] : log[p][i].svc = "drive" /\ log[p][i].op = "update"}

\* s is the ids of ps written one after the other with a comma between.
CommaJoined(s, ps) ==
    /\ Len(s) = (IF ps = <<>> THEN 0 ELSE 2 * Len(ps) - 1)
    /\ \A i \in DOMAIN s :
         s[i] = (IF i % 2 = 1 THEN ps[(i + 1) \div 2] ELSE Comma)

\* C6: a move_file that succeeds has issued exactly one update call, the
\* last call of the invocation, right after the get that read the parents;
\* addParents is new_parent_folder_id and removeParents is the comma-joined
\* parents that get returned (empty when it returned none).
C6_MoveIssuesOneUpdate ==
    \A p \in Procs :
        tool[p] = "move_file"
            => /\ pc[p] = "move_file_update" =>
                    Get(file[p], "parents", <<>>) = drive[args[p].file_id].parents
               /\ pc[p] = "done" =>
                    LET n == Len(log[p])
                        read == Get(file[p], "parents", <<>>)
                    IN /\ UpdateCalls(p) = {n}
                       /\ n >= 2
                       /\ log[p][n - 1].svc = "drive"
                       /\ log[p][n - 1].op = "get"
                       /\ log[p][n - 1].fileId = args[p].file_id
                       /\ log[p][n].fileId = args[p].file_id
                       /\ log[p][n].addParents = args[p].new_parent_folder_id
                       /\ CommaJoined(log[p][n].removeParents, read)

\* A move of the file that lies in two folders: removeParents names both.
C6_Witness ==
    \E p \in Procs :
        /\ tool[p] = "move_file" /\ pc[p] = "done"
        /\ Len(log[p][Len(log[p])].removeParents) = 3

\* get_file_info has returned for a file F that upload_file put under a
\* folder X that create_folder made.
InfoFile(p) == args[p].file_id
InfoFolder(p) == origin[InfoFile(p)].parent

UploadedUnderCreated(p) ==
    /\ tool[p] = "get_file_info" /\ pc[p] = "done"
    /\ origin[InfoFile(p)].by = "upload_file"
    /\ InfoFolder(p) \in Ids
    /\ origin[InfoFolder(p)].by = "create_folder"

Untouched(p) ==
    fs[args[p].destination_path] = start[p].fs[args[p].destination_path]

\* The destination holds every chunk of the file.
Complete(p) ==
    /\ fs[args[p].destination_path] = <<drive[args[p].file_id].content>>
    /\ progress[p] = Len(drive[args[p].file_id].content)

\* C8 as stated: download_file returns only after every chunk was received,
\* and while it is in progress or after it failed the destination path
\* holds no created, truncated or partly written file.
C8_NoPartialFile ==
    \A p \in Procs :
        tool[p] = "download_file"
            => /\ pc[p] = "done" => Complete(p)
               /\ pc[p] # "done" => Untouched(p)

\* C8 amended: download_file returns only after every chunk was received,
\* and a failure of get_drive leaves the destination as it was; but the
\* destination is created or truncated before the first chunk is asked for,
\* and while the transfer is in progress or after a chunk failed it holds
\* the chunks received so far.
C8_PartialFileUntilDone ==
    \A p \in Procs :
        tool[p] = "download_file"
            => LET content == drive[args[p].file_id].content
               IN /\ pc[p] = "done" =>
                       /\ Complete(p)
                       /\ Count(p, "drive", "get_media") =
                            (IF content = <<>> THEN 1 ELSE Len(content))
                  /\ (service[p] = <<>> \/ pc[p] = "download_file") =>
                       Untouched(p)
                  /\ (pc[p] \in {"download_file_chunk", "failed"}
                        /\ service[p] # <<>>) =>
                       /\ fs[args[p].destination_path] =
                            <<SubSeq(content, 1, progress[p])>>
                       /\ progress[p] < Len(content) \/ content = <<>>

\* A chunk failed after the first one was written: a partial file.
C8_Witness ==
    \E p \in Procs :
        /\ tool[p] = "download_file" /\ pc[p] = "failed"
        /\ progress[p] = 1
        /\ fs[args[p].destination_path] = << <<"c1">> >>
        /\ ~Untouched(p)

\* C9 is stated with the claims on get_drive above.

Moved == "f1"
Quiet == \A p \in Procs : ~Running(p)
Succeeded == {p \in Procs : tool[p] = "move_file" /\ pc[p] = "done"}
Targets(ps) == {args[p].new_parent_folder_id : p \in ps}

\* C10 as stated: once concurrent moves of a single-parent resource to
\* different folders have all completed, the resource lies in exactly one
\* folder, the target of one of the moves.
C10_ConcurrentMovesLeaveOneParent ==
    (Quiet /\ Cardinality(Targets(Succeeded)) >= 2)
        => /\ Cardinality(Elems(drive[Moved].parents)) = 1
           /\ Elems(drive[Moved].parents) \subseteq Targets(Succeeded)

\* C10 amended: once the moves have all completed and one at least has
\* succeeded, the resource lies in one or more folders, each the target of a
\* move that succeeded, and each successful move returned a record whose
\* parents hold its target; the initial parent is gone.
C10_ConcurrentMovesLeaveTargets ==
    /\ \A p \in Succeeded :
         args[p].new_parent_folder_id \in Elems(result[p].value["parents"])
    /\ (Quiet /\ Succeeded # {})
         => /\ drive[Moved].parents # <<>>
            /\ Elems(drive[Moved].parents) \subseteq Targets(Succeeded)

\* Two overlapping moves have left the resource in both folders.
C10_Witness ==
    /\ Quiet
    /\ Cardinality(Targets(Succeeded)) = 2
    /\ Cardinality(Elems(drive[Moved].parents)) = 2

====
